---------------------------- MODULE Spec2Model ----------------------------
(***************************************************************************)
(* The HARMONIA booking backend (server.js): the bookings document on      *)
(* disk, the four /api routes that read and rewrite it, and the two        *)
(* notification mails a successful booking dispatches.                     *)
(*                                                                         *)
(* Every route handler runs to completion without an await, and the file   *)
(* is read and written with the synchronous fs calls, so one request is    *)
(* one step.  fs.readFileSync and fs.writeFileSync can throw; the outcome  *)
(* of each call is an input of the step.                                   *)
(*                                                                         *)
(* Spec is that server, request by request; SpecReads adds the two status  *)
(* routes.  SpecTurns follows the POST handler statement by statement,     *)
(* with requests waiting while another handler is on the stack, and        *)
(* SpecWrites does so for the read and the rewrite of POST and DELETE.     *)
(* SpecDb is the SQLite backend (database.js) with callers that check and  *)
(* then insert, SpecStores runs the storage operations against the flat    *)
(* file and the database side by side, and SpecMigrate is the migration of *)
(* the document into the table.  SpecScroll and SpecForm are the script of *)
(* the page (script.js): the scroll lock, and the booking form with the    *)
(* requests it sends.                                                      *)
(***************************************************************************)
EXTENDS Integers, Sequences, FiniteSets, TLC

(***************************************************************************)
(* Bounds of the model.                                                    *)
(***************************************************************************)
MaxClock == 2      \* Date.now() takes the values 1..MaxClock
MaxBookings == 2   \* a booking is appended only to a collection shorter than this
MaxCallers == 2    \* callers of the database helpers
MaxReq == 2        \* POST requests followed statement by statement
MaxLock == 2       \* a lock is taken only while lockCount is below this
MaxPicks == 2      \* onSelect calls awaiting a response at one time
MaxPosts == 2      \* booking POSTs of the page awaiting a response at one time

(***************************************************************************)
(* Values of request fields.  Missing is a key the JSON body or the query  *)
(* string does not carry (undefined in the handler); "" is the empty       *)
(* string.  Both are falsy.                                                *)
(***************************************************************************)
Missing == "<undefined>"

Falsy(x) == x = Missing \/ x = ""

Dates == {"2025-03-10", "2025-03-11"}

\* the (date, time) pairs of complete bodies: one label of the fixed list on both
\* dates, and on the second date a time that is not on the list
Slots ==
    {<<"2025-03-10", "09:00">>, <<"2025-03-11", "09:00">>, <<"2025-03-11", "07:30">>}

Clock == 1..MaxClock

RequiredFields == {"firstName", "lastName", "email", "phone", "service", "date", "time"}

FullBody(d, t, n, p) ==
    [firstName |-> "Anna", lastName |-> "Nowak", email |-> "anna@example.com",
     phone |-> "600100200", service |-> "Masaz", date |-> d, time |-> t,
     notes |-> n, price |-> p]

\* complete bodies: one for each slot; the one of the unlisted time carries the
\* two optional fields, the others do not
CompleteBodies ==
    {IF s[2] = "07:30"
        THEN FullBody(s[1], s[2], "bol plecow", "150 zl")
        ELSE FullBody(s[1], s[2], Missing, Missing) : s \in Slots}

\* one body with each required field in turn absent or empty
IncompleteBodies ==
    {[FullBody("2025-03-10", "09:00", Missing, Missing) EXCEPT ![f] = v] :
        f \in RequiredFields, v \in {Missing, ""}}

Bodies == CompleteBodies \cup IncompleteBodies

QueryDates == Dates \cup {Missing, ""}

\* the :id values of DELETE requests: every id the server can issue, and one it cannot
ParamIds == {ToString(n) : n \in Clock} \cup {"0"}

\* outcomes of fs.writeFileSync: written; thrown with the document untouched (the
\* open failed); thrown after the open truncated the document.  A truncated
\* document does not parse, and readBookings answers { bookings: [] } for it, as
\* it does for an empty collection: it is represented by the empty sequence.
WriteOutcomes == {"ok", "failed", "truncated"}

CLINIC_EMAIL == "harmonia.sibo@gmail.com"

\* The POST requests followed statement by statement, and the bodies they carry.
Reqs == 1..MaxReq
ArrivalBodies ==
    {b \in CompleteBodies : b.time = "09:00"}
        \cup {[FullBody("2025-03-10", "09:00", Missing, Missing) EXCEPT !["phone"] = ""]}

\* The callers of the database helpers, and the ids their bookings carry.
Callers == 1..MaxCallers
DbIds == {"1", "2"}
\* SQL NULL, and null in the script of the page
Null == "<null>"
\* The outcome of one INSERT OR IGNORE of the migration, whose run has no
\* callback: it runs; SQLite reports an error and the next run follows; the
\* error ends the process.
MigrateOutcomes == {"ok", "error", "crash"}
\* The outcome of one statement: it runs, or SQLite reports an error other than
\* a constraint (SQLITE_BUSY, SQLITE_IOERR, ...).
DbOutcomes == {"ok", "error"}

VARIABLES
    file,    \* data/bookings.json: the sequence of bookings of its "bookings" array
    clock,   \* the value Date.now() returns
    mail,    \* transporter.sendMail calls: those in flight, and the settled ones
             \* of the latest dispatch
    resp     \* the latest response: the route, the status and the JSON body

vars == <<file, clock, mail, resp>>

\* The SQLite backend (database.js) and the code that calls its helpers.
VARIABLES
    rows,    \* the rows of the bookings table of data/bookings.db
    callers, \* per caller of dbHelpers: where it is in check-then-insert
    out,     \* the latest store operation run against both backends, and what
             \* the flat file and the database each answered
    migration \* migrateFromJSON: the bookings it read, the statement it has
             \* come to, what the last one did, and the backup it made

dbVars == <<rows, callers, out, migration>>

\* The POST handler followed statement by statement (turns of the event loop).
VARIABLES
    reqs,    \* per POST request: how far its handler has come, and what it holds
    running  \* the request whose handler is on the call stack, 0 when none is

turnVars == <<reqs, running>>

\* The page (script.js): the scroll lock, the nav menu, the booking modal and
\* its form, and the requests the page has sent and not yet seen answered.
VARIABLES
    page     \* a record of
             \*   lockCount        ScrollLock's lockCount
             \*   menuActive       #navLinks carries the class active
             \*   mqMatches        the media query (min-width: 993px) matches
             \*   modalShow        #bookingModal carries the class show
             \*   datepicker       an AirDatepicker is attached to #appointmentDate
             \*   initTimer        a setTimeout(initializeDatepicker, 50) is pending
             \*   selectedService, selectedDate, selectedTime
             \*   pickedFor        the date of the slot list selectedTime was clicked
             \*                    in; not a variable of the script, kept to tell
             \*                    which list a time is from
             \*   fields           firstName, lastName, email, phone all hold text
             \*   btnDisabled      #submitBtn is disabled
             \*   timeSlots        the content of the #timeSlots container
             \*   picks            the onSelect calls awaiting a response, oldest first
             \*   posts            the bodies of the booking POSTs awaiting a response

allVars == <<vars, dbVars, turnVars, page>>

(***************************************************************************)
(* Helper functions of server.js                                           *)
(***************************************************************************)

\* readBookings(): the parsed document, { bookings: [] } when the read throws
readBookings(readOk) == IF readOk THEN file ELSE <<>>

\* saveBookings(data): the document after the call
saveBookingsFile(data, w) ==
    CASE w = "ok" -> data
      [] w = "failed" -> file
      [] w = "truncated" -> <<>>

\* saveBookings without the "return false" of its catch block
saveBookingsIgnoresError(w) == TRUE

\* saveBookings(data): the value returned
saveBookings(w) == w = "ok"

\* isTimeSlotAvailable(date, time): no booking read has that date and that time
isTimeSlotAvailable(date, time, readOk) ==
    LET data == readBookings(readOk)
    IN  ~ \E i \in DOMAIN data : data[i].date = date /\ data[i].time = time

\* Array.prototype.includes on a sequence
Includes(seq, x) == \E i \in DOMAIN seq : seq[i] = x

\* Array.prototype.findIndex: the first index that satisfies, 0 for -1
FindIndexById(data, id) ==
    IF \E i \in DOMAIN data : data[i].id = id
    THEN CHOOSE i \in DOMAIN data :
            /\ data[i].id = id
            /\ \A j \in DOMAIN data : data[j].id = id => i <= j
    ELSE 0

\* Array.prototype.splice(index, 1)
Splice1(data, index) ==
    [i \in 1..(Len(data) - 1) |-> IF i < index THEN data[i] ELSE data[i + 1]]

allTimeSlots ==
    <<"08:00", "09:00", "10:00", "11:00", "12:00",
      "13:00", "14:00", "15:00", "16:00", "17:00", "18:00">>

\* bookedTimes without the filter on the date
bookedTimesAnyDate(data, date) == [i \in 1..Len(data) |-> data[i].time]

\* data.bookings.filter(b => b.date === date).map(b => b.time)
bookedTimes(data, date) ==
    LET onDate == SelectSeq(data, LAMBDA b : b.date = date)
    IN  [i \in 1..Len(onDate) |-> onDate[i].time]

\* allTimeSlots.filter(time => !bookedTimes.includes(time))
availableTimes(data, date) ==
    SelectSeq(allTimeSlots, LAMBDA t : ~ Includes(bookedTimes(data, date), t))

\* the validation with phone left out of the condition
RequiredMissingNoPhone(body) ==
    \E f \in RequiredFields \ {"phone"} : Falsy(body[f])

\* the validation of POST /api/bookings: some required field is falsy
RequiredMissing(body) == \E f \in RequiredFields : Falsy(body[f])

\* x || ''
OrEmpty(x) == IF Falsy(x) THEN "" ELSE x

\* the booking object the POST handler builds
newBooking(body) ==
    [id |-> ToString(clock),
     firstName |-> body.firstName, lastName |-> body.lastName,
     email |-> body.email, phone |-> body.phone, service |-> body.service,
     date |-> body.date, time |-> body.time,
     notes |-> OrEmpty(body.notes), price |-> OrEmpty(body.price),
     createdAt |-> clock]

\* the mailOptions.to of sendClinicNotification
sendClinicNotification(booking) ==
    [kind |-> "clinic", to |-> CLINIC_EMAIL, id |-> booking.id, st |-> "pending"]

\* the confirmation addressed to the clinic instead of the client
sendClientConfirmationToClinic(booking) ==
    [kind |-> "client", to |-> CLINIC_EMAIL, id |-> booking.id, st |-> "pending"]

\* the mailOptions.to of sendClientConfirmation
sendClientConfirmation(booking) ==
    [kind |-> "client", to |-> booking.email, id |-> booking.id, st |-> "pending"]

Pending(m) == SelectSeq(m, LAMBDA s : s.st = "pending")

(***************************************************************************)
(* The page after DOMContentLoaded, on a narrow viewport: nothing locked,  *)
(* menu and modal closed, the form empty with its submit button disabled.  *)
(***************************************************************************)
InitPage ==
    page = [lockCount |-> 0, menuActive |-> FALSE, mqMatches |-> FALSE,
            modalShow |-> FALSE, datepicker |-> FALSE, initTimer |-> FALSE,
            selectedService |-> Null, selectedDate |-> Null, selectedTime |-> Null,
            pickedFor |-> Null, fields |-> FALSE, btnDisabled |-> TRUE,
            timeSlots |-> [state |-> "empty", date |-> Null, times |-> <<>>],
            picks |-> <<>>, posts |-> <<>>]

(***************************************************************************)
(* The state after the server has started: it creates the document with    *)
(* an empty bookings array.                                                *)
(***************************************************************************)
Init ==
    /\ file = <<>>
    /\ clock = 1
    /\ mail = <<>>
    /\ resp = [op |-> "none", status |-> 0, body |-> [none |-> TRUE]]
    /\ rows = {}
    /\ callers = [c \in Callers |-> [pc |-> "idle"]]
    /\ out = [op |-> "none", file |-> "none", db |-> "none"]
    /\ migration = [pc |-> "idle", data |-> <<>>, i |-> 0, last |-> "none", backup |-> {}]
    /\ reqs = [n \in Reqs |-> [pc |-> "none", status |-> 0]]
    /\ running = 0
    /\ InitPage

\* the handler with the test "date === undefined" in place of "!date"
GetAvailableTimesEmptyAccepted(date, readOk) ==
    /\ IF date = Missing
       THEN resp' = [op |-> "AVAIL", status |-> 400,
                     body |-> [error |-> "Date parameter is required"]]
       ELSE LET data == readBookings(readOk)
            IN  resp' = [op |-> "AVAIL", status |-> 200,
                         body |-> [date |-> date,
                                   availableTimes |-> availableTimes(data, date),
                                   bookedTimes |-> bookedTimes(data, date)]]
    /\ UNCHANGED <<file, clock, mail>>

(***************************************************************************)
(* GET /api/available-times?date=                                          *)
(***************************************************************************)
GetAvailableTimes(date, readOk) ==
    /\ IF Falsy(date)
       THEN resp' = [op |-> "AVAIL", status |-> 400,
                     body |-> [error |-> "Date parameter is required"]]
       ELSE LET data == readBookings(readOk)
            IN  resp' = [op |-> "AVAIL", status |-> 200,
                         body |-> [date |-> date,
                                   availableTimes |-> availableTimes(data, date),
                                   bookedTimes |-> bookedTimes(data, date)]]
    /\ UNCHANGED <<file, clock, mail>>

(***************************************************************************)
(* POST /api/bookings, from the construction of the booking on: the        *)
(* second read, the push, the write, the two sends and the response.       *)
(* read2 is the outcome of the read, w of the write.  Both send functions  *)
(* run up to their await of transporter.sendMail before the response is    *)
(* written.  A new dispatch is modelled only when no earlier send is in    *)
(* flight; the settled sends of the dispatch before are forgotten then.    *)
(***************************************************************************)
PostSave(body, read2, w) ==
    LET booking == newBooking(body)
        data == Append(readBookings(read2), booking)
    IN  /\ Len(data) <= MaxBookings
        /\ file' = saveBookingsFile(data, w)
        /\ IF ~ saveBookings(w)
           THEN /\ resp' = [op |-> "POST", status |-> 500,
                            body |-> [error |-> "Blad podczas zapisywania rezerwacji"]]
                /\ mail' = mail
           ELSE /\ Pending(mail) = <<>>
                /\ mail' = <<sendClinicNotification(booking),
                             sendClientConfirmation(booking)>>
                /\ resp' = [op |-> "POST", status |-> 201,
                            body |-> [success |-> TRUE,
                                      message |-> "Rezerwacja zostala pomyslnie utworzona",
                                      booking |-> [id |-> booking.id,
                                                   date |-> booking.date,
                                                   time |-> booking.time,
                                                   service |-> booking.service]]]
        /\ UNCHANGED clock

(***************************************************************************)
(* POST /api/bookings: the validation, the availability check (read1 is    *)
(* the outcome of the read inside isTimeSlotAvailable), then the save.     *)
(***************************************************************************)
PostBookings(body) ==
    IF RequiredMissing(body)
    THEN /\ resp' = [op |-> "POST", status |-> 400,
                     body |-> [error |-> "Wszystkie wymagane pola musza byc wypelnione"]]
         /\ UNCHANGED <<file, clock, mail>>
    ELSE \E read1 \in BOOLEAN :
         IF ~ isTimeSlotAvailable(body.date, body.time, read1)
         THEN /\ resp' = [op |-> "POST", status |-> 409,
                          body |-> [error |-> "Ten termin jest juz zajety. Prosze wybrac inny."]]
              /\ UNCHANGED <<file, clock, mail>>
         ELSE \E read2 \in BOOLEAN, w \in WriteOutcomes : PostSave(body, read2, w)

(***************************************************************************)
(* GET /api/bookings                                                       *)
(***************************************************************************)
GetBookings(readOk) ==
    /\ resp' = [op |-> "LIST", status |-> 200, body |-> [list |-> readBookings(readOk)]]
    /\ UNCHANGED <<file, clock, mail>>

(***************************************************************************)
(* DELETE /api/bookings/:id, from the splice on.  w is the outcome of the  *)
(* write; the value saveBookings returns is not used.                      *)
(***************************************************************************)
DeleteSave(data, bookingIndex, w) ==
    /\ file' = saveBookingsFile(Splice1(data, bookingIndex), w)
    /\ resp' = [op |-> "DELETE", status |-> 200,
                body |-> [success |-> TRUE, message |-> "Rezerwacja zostala usunieta"]]
    /\ UNCHANGED <<clock, mail>>

(***************************************************************************)
(* DELETE /api/bookings/:id: the read, the search, then the splice.        *)
(***************************************************************************)
DeleteBooking(id) ==
    \E readOk \in BOOLEAN :
       LET data == readBookings(readOk)
           bookingIndex == FindIndexById(data, id)
       IN  IF bookingIndex = 0
           THEN /\ resp' = [op |-> "DELETE", status |-> 404,
                            body |-> [error |-> "Rezerwacja nie znaleziona"]]
                /\ UNCHANGED <<file, clock, mail>>
           ELSE \E w \in WriteOutcomes : DeleteSave(data, bookingIndex, w)

\* a settle step that takes the booking back when the send failed
SendMailSettlesRollback(i, ok) ==
    /\ i \in DOMAIN mail
    /\ mail[i].st = "pending"
    /\ mail' = [mail EXCEPT ![i].st = IF ok THEN "sent" ELSE "failed"]
    /\ file' = IF ok THEN file ELSE SelectSeq(file, LAMBDA b : b.id # mail[i].id)
    /\ UNCHANGED <<clock, resp>>

(***************************************************************************)
(* The promise of one transporter.sendMail call settles.  Both send        *)
(* functions catch a rejection, log it and return false; nothing reads     *)
(* the value.                                                              *)
(***************************************************************************)
SendMailSettles(i, ok) ==
    /\ i \in DOMAIN mail
    /\ mail[i].st = "pending"
    /\ mail' = [mail EXCEPT ![i].st = IF ok THEN "sent" ELSE "failed"]
    /\ UNCHANGED <<file, clock, resp>>

(***************************************************************************)
(* Time passes.                                                            *)
(***************************************************************************)
Tick ==
    /\ clock < MaxClock
    /\ clock' = clock + 1
    /\ UNCHANGED <<file, mail, resp>>

\* The flat-file server alone: the database is not touched.
(***************************************************************************)
(* GET / and GET /health: the server's own status, with the time of the    *)
(* answer; process.uptime() is the time since the start at clock 1.        *)
(***************************************************************************)
GetRoot ==
    /\ resp' = [op |-> "ROOT", status |-> 200, body |->
                  [status |-> "ok", message |-> "HARMONIA Booking System API",
                   version |-> "1.0.0", timestamp |-> clock]]
    /\ UNCHANGED <<file, clock, mail>>

GetHealth ==
    /\ resp' = [op |-> "HEALTH", status |-> 200, body |->
                  [status |-> "healthy", uptime |-> clock - 1, timestamp |-> clock]]
    /\ UNCHANGED <<file, clock, mail>>

Next ==
    \/ \E date \in QueryDates, readOk \in BOOLEAN :
          GetAvailableTimes(date, readOk) /\ UNCHANGED <<dbVars, turnVars, page>>
    \/ \E body \in Bodies : PostBookings(body) /\ UNCHANGED <<dbVars, turnVars, page>>
    \/ \E readOk \in BOOLEAN : GetBookings(readOk) /\ UNCHANGED <<dbVars, turnVars, page>>
    \/ \E id \in ParamIds : DeleteBooking(id) /\ UNCHANGED <<dbVars, turnVars, page>>
    \/ \E i \in 1..2, ok \in BOOLEAN :
          SendMailSettles(i, ok) /\ UNCHANGED <<dbVars, turnVars, page>>
    \/ Tick /\ UNCHANGED <<dbVars, turnVars, page>>

Spec == Init /\ [][Next]_allVars

\* The read endpoints, the two status routes among them, with the POSTs that
\* fill the collection they read.
NextReads ==
    \/ GetRoot /\ UNCHANGED <<dbVars, turnVars, page>>
    \/ GetHealth /\ UNCHANGED <<dbVars, turnVars, page>>
    \/ \E date \in QueryDates, readOk \in BOOLEAN :
          GetAvailableTimes(date, readOk) /\ UNCHANGED <<dbVars, turnVars, page>>
    \/ \E readOk \in BOOLEAN : GetBookings(readOk) /\ UNCHANGED <<dbVars, turnVars, page>>
    \/ \E body \in CompleteBodies : PostBookings(body) /\ UNCHANGED <<dbVars, turnVars, page>>
    \/ \E i \in 1..2, ok \in BOOLEAN :
          SendMailSettles(i, ok) /\ UNCHANGED <<dbVars, turnVars, page>>
    \/ Tick /\ UNCHANGED <<dbVars, turnVars, page>>

SpecReads == Init /\ [][NextReads]_allVars

(***************************************************************************)
(* The SQLite backend (database.js).  The bookings table has id as its     *)
(* PRIMARY KEY, NOT NULL on the required columns and on createdAt, and no  *)
(* UNIQUE constraint on (date, time).  Every helper returns a Promise that *)
(* settles in the callback of one statement: a caller that checks and then *)
(* inserts runs two statements, with whatever else the event loop does     *)
(* between them.                                                           *)
(***************************************************************************)
\* booking.notes || null
OrNull(x) == IF Falsy(x) THEN Null ELSE x

\* the row INSERT INTO bookings (...) VALUES (...) makes of a booking
RowOf(booking) ==
    [id |-> booking.id, firstName |-> booking.firstName,
     lastName |-> booking.lastName, email |-> booking.email,
     phone |-> booking.phone, service |-> booking.service,
     date |-> booking.date, time |-> booking.time,
     notes |-> OrNull(booking.notes), price |-> OrNull(booking.price),
     status |-> "confirmed", createdAt |-> booking.createdAt, updatedAt |-> Null]

\* a table that also refused a second row for a (date, time)
ConstraintsWithUniqueSlot(table, row) ==
    /\ \A r \in table : r.id # row.id
    /\ \A r \in table : ~ (r.date = row.date /\ r.time = row.time)
    /\ \A f \in RequiredFields : row[f] # Missing

\* the constraints of CREATE TABLE bookings a new row has to meet: PRIMARY KEY
\* on id and NOT NULL on the seven required columns (undefined is bound as
\* NULL; createdAt, NOT NULL as well, is always a timestamp)
Constraints(table, row) ==
    /\ \A r \in table : r.id # row.id
    /\ \A f \in RequiredFields : row[f] # Missing

\* SELECT COUNT(*) ... WHERE date = ? AND time = ?, resolved as count === 0
dbHelpers_isTimeSlotAvailable(date, time) ==
    Cardinality({r \in rows : r.date = date /\ r.time = time}) = 0

\* the booking a caller brings: the fields of a complete request and its own id
CallerBooking(slot, id) ==
    [newBooking(FullBody(slot[1], slot[2], Missing, Missing)) EXCEPT !.id = id]

\* dbHelpers.isTimeSlotAvailable(date, time) called and settled
CallIsTimeSlotAvailable(c, slot, id, o) ==
    /\ callers[c].pc = "idle"
    /\ callers' = [callers EXCEPT ![c] =
          IF o = "error"
          THEN [pc |-> "rejected", err |-> "SQLITE_ERROR",
                booking |-> CallerBooking(slot, id)]
          ELSE [pc |-> "checked", booking |-> CallerBooking(slot, id),
                available |-> dbHelpers_isTimeSlotAvailable(slot[1], slot[2])]]
    /\ UNCHANGED rows

\* the caller found the slot taken and makes no insert
CallerRefuses(c) ==
    /\ callers[c].pc = "checked"
    /\ ~ callers[c].available
    /\ callers' = [callers EXCEPT ![c] =
          [pc |-> "refused", booking |-> callers[c].booking]]
    /\ UNCHANGED rows

\* dbHelpers.createBooking(booking) called and settled
CallCreateBooking(c, o) ==
    /\ callers[c].pc = "checked"
    /\ callers[c].available
    /\ LET booking == callers[c].booking
       IN  IF o = "error"
           THEN /\ callers' = [callers EXCEPT ![c] =
                      [pc |-> "rejected", err |-> "SQLITE_ERROR", booking |-> booking]]
                /\ UNCHANGED rows
           ELSE IF ~ Constraints(rows, RowOf(booking))
           THEN /\ callers' = [callers EXCEPT ![c] =
                      [pc |-> "rejected", err |-> "SQLITE_CONSTRAINT",
                       booking |-> booking]]
                /\ UNCHANGED rows
           ELSE /\ rows' = rows \cup {RowOf(booking)}
                /\ callers' = [callers EXCEPT ![c] =
                      [pc |-> "created", booking |-> booking, changes |-> 1]]

\* The database and its callers alone.
NextDb ==
    \/ \E c \in Callers, slot \in Slots, id \in DbIds, o \in DbOutcomes :
          CallIsTimeSlotAvailable(c, slot, id, o) /\ UNCHANGED <<vars, out, migration, turnVars, page>>
    \/ \E c \in Callers : CallerRefuses(c) /\ UNCHANGED <<vars, out, migration, turnVars, page>>
    \/ \E c \in Callers, o \in DbOutcomes :
          CallCreateBooking(c, o) /\ UNCHANGED <<vars, out, migration, turnVars, page>>

SpecDb == Init /\ [][NextDb]_allVars

(***************************************************************************)
(* The two stores side by side: one operation of the storage interface     *)
(* (insert, delete, exists, listByDate) run against the flat file, as the  *)
(* routes of server.js run it, and against the database, as the helper of  *)
(* database.js runs it, from the same empty start.  Reads, writes and      *)
(* statements succeed here.  A list is kept as the set of the bookings     *)
(* returned, each by id, date and time: the order of the result (file      *)
(* order; ORDER BY time) and the columns only the table has are left out.  *)
(***************************************************************************)
Key(b) == <<b.id, b.date, b.time>>

\* data.bookings.filter(booking => booking.date === date)
fileBookingsByDate(date) ==
    LET data == readBookings(TRUE)
    IN  {Key(data[i]) : i \in {j \in DOMAIN data : data[j].date = date}}

\* SELECT * FROM bookings WHERE date = ? ORDER BY time
dbHelpers_getBookingsByDate(date) ==
    {Key(r) : r \in {q \in rows : q.date = date}}

\* data.bookings.push(newBooking); saveBookings(data)  |  createBooking(booking)
StoreInsert(body) ==
    LET booking == newBooking(body)
        data == Append(readBookings(TRUE), booking)
        accepted == Constraints(rows, RowOf(booking))
    IN  /\ Len(data) <= MaxBookings
        /\ file' = saveBookingsFile(data, "ok")
        /\ rows' = IF accepted THEN rows \cup {RowOf(booking)} ELSE rows
        /\ out' = [op |-> "insert",
                   file |-> IF saveBookings("ok") THEN "created" ELSE "error",
                   db |-> IF accepted THEN "created" ELSE "error"]
        /\ UNCHANGED <<clock, mail, resp, callers, migration, turnVars, page>>

\* findIndex, splice, saveBookings  |  DELETE FROM bookings WHERE id = ?
StoreDelete(id) ==
    LET data == readBookings(TRUE)
        bookingIndex == FindIndexById(data, id)
        changes == Cardinality({r \in rows : r.id = id})
    IN  /\ file' = IF bookingIndex = 0 THEN file
                   ELSE saveBookingsFile(Splice1(data, bookingIndex), "ok")
        /\ rows' = {r \in rows : r.id # id}
        /\ out' = [op |-> "delete",
                   file |-> IF bookingIndex = 0 THEN "absent" ELSE "deleted",
                   db |-> IF changes = 0 THEN "absent" ELSE "deleted"]
        /\ UNCHANGED <<clock, mail, resp, callers, migration, turnVars, page>>

\* !isTimeSlotAvailable(date, time) of either backend
StoreExists(date, time) ==
    /\ out' = [op |-> "exists",
               file |-> ~ isTimeSlotAvailable(date, time, TRUE),
               db |-> ~ dbHelpers_isTimeSlotAvailable(date, time)]
    /\ UNCHANGED <<file, clock, mail, resp, rows, callers, migration, turnVars, page>>

StoreListByDate(date) ==
    /\ out' = [op |-> "listByDate",
               file |-> fileBookingsByDate(date),
               db |-> dbHelpers_getBookingsByDate(date)]
    /\ UNCHANGED <<file, clock, mail, resp, rows, callers, migration, turnVars, page>>

NextStores ==
    \/ \E body \in CompleteBodies : StoreInsert(body)
    \/ \E id \in ParamIds : StoreDelete(id)
    \/ \E slot \in Slots : StoreExists(slot[1], slot[2])
    \/ \E date \in Dates : StoreListByDate(date)
    \/ Tick /\ UNCHANGED <<dbVars, turnVars, page>>

SpecStores == Init /\ [][NextStores]_allVars

(***************************************************************************)
(* migrateFromJSON (database.js), called when the bookings table is ready: *)
(* it reads data/bookings.json, the document of the flat-file server, and  *)
(* queues one INSERT OR IGNORE per booking on a prepared statement, then   *)
(* finalizes the statement and copies the document to bookings.json.backup.*)
(* The values are bound when run is called, so the statements carry the    *)
(* bookings as they were read; each statement is one step, and the other   *)
(* statements of the database (an UPDATE, a DELETE) run between them.      *)
(* SpecMigrate starts from a document the flat-file server has written,    *)
(* with the table empty; the migration runs any number of times, and rows  *)
(* are cancelled or deleted in between.                                    *)
(***************************************************************************)
\* the bookings the server can have stored: a complete body with one of the
\* listed times, under an id and a createdAt of the clock
DocumentBookings ==
    {[newBooking(body) EXCEPT !.id = ToString(c), !.createdAt = c] :
        body \in CompleteBodies \cap ArrivalBodies, c \in Clock}

\* the documents migrateFromJSON can find: none, one or two bookings.  Two
\* bookings can carry one id (two POSTs of one millisecond).
JsonDocuments ==
    {<<>>} \cup {<<a>> : a \in DocumentBookings}
           \cup {<<a, b>> : a, b \in DocumentBookings}

\* fs.existsSync, readFileSync, JSON.parse, the test of data.bookings and the
\* forEach that binds the statements.  The document exists once the server has
\* started; exists = FALSE is the start on a directory without one.
MigrateFromJSON(exists, readOk) ==
    /\ migration.pc = "idle"
    /\ exists \/ file = <<>>
    /\ migration' =
          IF exists /\ readOk /\ Len(file) > 0
          THEN [migration EXCEPT !.pc = "running", !.data = file, !.i = 1,
                                 !.last = "none"]
          ELSE [migration EXCEPT !.data = <<>>, !.i = 0, !.last = "none"]
    /\ UNCHANGED rows

\* the statement as INSERT OR REPLACE: a row of the same id gives way
MigrateRunReplace(o) ==
    /\ migration.pc = "running"
    /\ migration.i <= Len(migration.data)
    /\ LET row == RowOf(migration.data[migration.i])
       IN  IF o = "ok"
           THEN /\ rows' = {r \in rows : r.id # row.id} \cup {row}
                /\ migration' = [migration EXCEPT !.i = @ + 1, !.last = "inserted"]
           ELSE /\ rows' = rows
                /\ migration' = [migration EXCEPT !.i = @ + 1, !.last = "error",
                                    !.pc = IF o = "crash" THEN "idle" ELSE @]

\* stmt.run(booking.id, ..., booking.createdAt): INSERT OR IGNORE INTO bookings.
\* A row that breaks a constraint of the table is skipped without an error.
MigrateRun(o) ==
    /\ migration.pc = "running"
    /\ migration.i <= Len(migration.data)
    /\ LET row == RowOf(migration.data[migration.i])
       IN  IF o = "ok"
           THEN IF Constraints(rows, row)
                THEN /\ rows' = rows \cup {row}
                     /\ migration' = [migration EXCEPT !.i = @ + 1, !.last = "inserted"]
                ELSE /\ rows' = rows
                     /\ migration' = [migration EXCEPT !.i = @ + 1, !.last = "ignored"]
           ELSE /\ rows' = rows
                /\ migration' = [migration EXCEPT !.i = @ + 1, !.last = "error",
                                    !.pc = IF o = "crash" THEN "idle" ELSE @]

\* stmt.finalize(callback): without an error the document is copied to the backup
MigrateFinalize(finOk) ==
    /\ migration.pc = "running"
    /\ migration.i > Len(migration.data)
    /\ migration' = [migration EXCEPT !.pc = "idle",
                                      !.backup = IF finOk THEN {file} ELSE @]
    /\ UNCHANGED rows

\* dbHelpers.updateBooking(id, { status: 'cancelled' })
DbUpdateBooking(id) ==
    /\ rows' = {IF r.id = id
                THEN [r EXCEPT !.status = "cancelled", !.updatedAt = ToString(clock)]
                ELSE r : r \in rows}
    /\ UNCHANGED migration

\* dbHelpers.deleteBooking(id)
DbDeleteBooking(id) ==
    /\ rows' = {r \in rows : r.id # id}
    /\ UNCHANGED migration

InitMigrate ==
    /\ clock = 1
    /\ file \in JsonDocuments
    /\ mail = <<>>
    /\ resp = [op |-> "none", status |-> 0, body |-> [none |-> TRUE]]
    /\ rows = {}
    /\ callers = [c \in Callers |-> [pc |-> "idle"]]
    /\ out = [op |-> "none", file |-> "none", db |-> "none"]
    /\ migration = [pc |-> "idle", data |-> <<>>, i |-> 0, last |-> "none", backup |-> {}]
    /\ reqs = [n \in Reqs |-> [pc |-> "none", status |-> 0]]
    /\ running = 0
    /\ InitPage

NextMigrate ==
    \/ \E exists, readOk \in BOOLEAN :
          MigrateFromJSON(exists, readOk) /\ UNCHANGED <<vars, callers, out, turnVars, page>>
    \/ \E o \in MigrateOutcomes : MigrateRun(o) /\ UNCHANGED <<vars, callers, out, turnVars, page>>
    \/ \E finOk \in BOOLEAN :
          MigrateFinalize(finOk) /\ UNCHANGED <<vars, callers, out, turnVars, page>>
    \/ \E id \in DbIds : DbUpdateBooking(id) /\ UNCHANGED <<vars, callers, out, turnVars, page>>
    \/ \E id \in DbIds : DbDeleteBooking(id) /\ UNCHANGED <<vars, callers, out, turnVars, page>>

SpecMigrate == InitMigrate /\ [][NextMigrate]_allVars

(***************************************************************************)
(* POST /api/bookings statement by statement.  A request arrives, and its  *)
(* handler then runs on the one JavaScript thread: no statement of it      *)
(* between the availability check and the response yields (sendMail is     *)
(* awaited inside the two send functions, not in the handler), so once a   *)
(* handler is on the stack no other handler and no Promise callback runs   *)
(* until it has returned.  running is that handler.  As in PostSave, a     *)
(* handler gets past its check only when no earlier send is in flight.     *)
(* The clock is read once per handler (line 272), so a tick while a        *)
(* handler runs is the same as one before it and is not taken separately.  *)
(***************************************************************************)
\* requests are numbered in the order they arrive
Arrive(n, body) ==
    /\ reqs[n].pc = "none"
    /\ \A m \in Reqs : m < n => reqs[m].pc # "none"
    /\ reqs' = [reqs EXCEPT ![n] = [pc |-> "arrived", status |-> 0, body |-> body]]
    /\ UNCHANGED <<vars, running>>

\* the handler answers and returns
Answered(n, status) ==
    [pc |-> "done", status |-> status, body |-> reqs[n].body,
     seen |-> {m \in Reqs \ {n} : reqs[m].pc = "arrived"}]

\* a handler that gave up the thread after its availability check
HandlerChecksThenYields(n, read1) ==
    LET body == reqs[n].body
    IN  /\ reqs[n].pc = "arrived"
        /\ running = 0
        /\ IF RequiredMissing(body)
           THEN /\ reqs' = [reqs EXCEPT ![n] = Answered(n, 400)]
                /\ resp' = [op |-> "POST", status |-> 400, body |->
                              [error |-> "Wszystkie wymagane pola musza byc wypelnione"]]
           ELSE IF ~ isTimeSlotAvailable(body.date, body.time, read1)
           THEN /\ reqs' = [reqs EXCEPT ![n] = Answered(n, 409)]
                /\ resp' = [op |-> "POST", status |-> 409, body |->
                              [error |-> "Ten termin jest juz zajety. Prosze wybrac inny."]]
           ELSE /\ Pending(mail) = <<>>
                /\ reqs' = [reqs EXCEPT ![n] =
                      [pc |-> "checked", status |-> 0, body |-> body, read1 |-> read1,
                       seen |-> {m \in Reqs \ {n} : reqs[m].pc = "arrived"}]]
                /\ resp' = resp
        /\ running' = 0
        /\ UNCHANGED <<file, clock, mail>>

\* lines 254-268: the destructuring, the validation and the availability check
HandlerChecks(n, read1) ==
    LET body == reqs[n].body
    IN  /\ reqs[n].pc = "arrived"
        /\ running = 0
        /\ IF RequiredMissing(body)
           THEN /\ reqs' = [reqs EXCEPT ![n] = Answered(n, 400)]
                /\ resp' = [op |-> "POST", status |-> 400, body |->
                              [error |-> "Wszystkie wymagane pola musza byc wypelnione"]]
                /\ running' = 0
           ELSE IF ~ isTimeSlotAvailable(body.date, body.time, read1)
           THEN /\ reqs' = [reqs EXCEPT ![n] = Answered(n, 409)]
                /\ resp' = [op |-> "POST", status |-> 409, body |->
                              [error |-> "Ten termin jest juz zajety. Prosze wybrac inny."]]
                /\ running' = 0
           ELSE /\ Pending(mail) = <<>>
                /\ reqs' = [reqs EXCEPT ![n] =
                      [pc |-> "checked", status |-> 0, body |-> body, read1 |-> read1,
                       seen |-> {m \in Reqs \ {n} : reqs[m].pc = "arrived"}]]
                /\ resp' = resp
                /\ running' = n
        /\ UNCHANGED <<file, clock, mail>>

\* lines 271-293: the booking is built, the file read, the booking pushed and
\* the file written
HandlerSaves(n, read2, w) ==
    LET booking == newBooking(reqs[n].body)
        data == Append(readBookings(read2), booking)
    IN  /\ reqs[n].pc = "checked"
        /\ running \in {0, n}
        /\ file' = saveBookingsFile(data, w)
        /\ IF ~ saveBookings(w)
           THEN /\ reqs' = [reqs EXCEPT ![n] =
                      [pc |-> "done", status |-> 500, body |-> reqs[n].body,
                       seen |-> reqs[n].seen]]
                /\ resp' = [op |-> "POST", status |-> 500, body |->
                              [error |-> "Blad podczas zapisywania rezerwacji"]]
                /\ running' = 0
           ELSE /\ reqs' = [reqs EXCEPT ![n] =
                      [pc |-> "saved", status |-> 0, body |-> reqs[n].body,
                       seen |-> reqs[n].seen, read1 |-> reqs[n].read1,
                       booking |-> booking]]
                /\ resp' = resp
                /\ running' = n
        /\ UNCHANGED <<clock, mail>>

\* a handler that awaited the clinic send before going on
HandlerSendsClinicAwaited(n) ==
    /\ reqs[n].pc = "saved"
    /\ running = n
    /\ mail' = <<[sendClinicNotification(reqs[n].booking) EXCEPT !.st = "sent"]>>
    /\ reqs' = [reqs EXCEPT ![n].pc = "clinicStarted"]
    /\ UNCHANGED <<file, clock, resp, running>>

\* lines 297-299: sendClinicNotification(newBooking) runs up to its await of
\* transporter.sendMail and returns its Promise
HandlerSendsClinic(n) ==
    /\ reqs[n].pc = "saved"
    /\ running = n
    /\ mail' = <<sendClinicNotification(reqs[n].booking)>>
    /\ reqs' = [reqs EXCEPT ![n].pc = "clinicStarted"]
    /\ UNCHANGED <<file, clock, resp, running>>

\* lines 301-303: sendClientConfirmation(newBooking), likewise
HandlerSendsClient(n) ==
    /\ reqs[n].pc = "clinicStarted"
    /\ running = n
    /\ mail' = Append(mail, sendClientConfirmation(reqs[n].booking))
    /\ reqs' = [reqs EXCEPT ![n].pc = "clientStarted"]
    /\ UNCHANGED <<file, clock, resp, running>>

\* lines 306-316: the 201 response is written and the handler returns
HandlerResponds(n) ==
    LET booking == reqs[n].booking
    IN  /\ reqs[n].pc = "clientStarted"
        /\ running = n
        /\ resp' = [op |-> "POST", status |-> 201, body |->
                      [success |-> TRUE,
                       message |-> "Rezerwacja zostala pomyslnie utworzona",
                       booking |-> [id |-> booking.id, date |-> booking.date,
                                    time |-> booking.time,
                                    service |-> booking.service]]]
        /\ reqs' = [reqs EXCEPT ![n].pc = "done", ![n].status = 201]
        /\ running' = 0
        /\ UNCHANGED <<file, clock, mail>>

\* the continuation of a send function after its await: it runs only when the
\* call stack is empty
SendMailSettlesBetweenTurns(i, ok) ==
    /\ running = 0
    /\ SendMailSettles(i, ok)
    /\ UNCHANGED turnVars

NextTurns ==
    \/ \E n \in Reqs, body \in ArrivalBodies : Arrive(n, body) /\ UNCHANGED <<dbVars, page>>
    \/ \E n \in Reqs, read1 \in BOOLEAN : HandlerChecks(n, read1) /\ UNCHANGED <<dbVars, page>>
    \/ \E n \in Reqs, read2 \in BOOLEAN, w \in WriteOutcomes :
          HandlerSaves(n, read2, w) /\ UNCHANGED <<dbVars, page>>
    \/ \E n \in Reqs : HandlerSendsClinic(n) /\ UNCHANGED <<dbVars, page>>
    \/ \E n \in Reqs : HandlerSendsClient(n) /\ UNCHANGED <<dbVars, page>>
    \/ \E n \in Reqs : HandlerResponds(n) /\ UNCHANGED <<dbVars, page>>
    \/ \E i \in 1..2, ok \in BOOLEAN :
          SendMailSettlesBetweenTurns(i, ok) /\ UNCHANGED <<dbVars, page>>
    \/ Tick /\ running = 0 /\ UNCHANGED <<dbVars, turnVars, page>>

SpecTurns == Init /\ [][NextTurns]_allVars

(***************************************************************************)
(* The two mutating handlers, POST and DELETE, with the read of the        *)
(* collection and its rewrite as separate statements.  Both are            *)
(* synchronous calls (fs.readFileSync, fs.writeFileSync) of one handler    *)
(* turn: the handler that has read holds the thread until it has written.  *)
(* Whether a send goes out or fails plays no part in what the handlers     *)
(* read and write: the sends settle as sent here.                          *)
(***************************************************************************)
\* the ids DELETE requests name: the id of a booking made at clock 1, and one
\* no booking has
DeleteIds == {"1", "0"}

ArriveDelete(n, id) ==
    /\ reqs[n].pc = "none"
    /\ \A m \in Reqs : m < n => reqs[m].pc # "none"
    /\ reqs' = [reqs EXCEPT ![n] = [pc |-> "delArrived", status |-> 0, id |-> id]]
    /\ UNCHANGED <<vars, running>>

\* the requests waiting for their handler when the handler of n begins
Waiting(n) == {m \in Reqs \ {n} : reqs[m].pc \in {"arrived", "delArrived"}}

\* a POST handler that gave up the thread between its read and its write
PostReadsThenYields(n, read2) ==
    /\ reqs[n].pc = "checked"
    /\ running \in {0, n}
    /\ reqs' = [reqs EXCEPT ![n] =
          [pc |-> "read", status |-> 0, body |-> reqs[n].body, seen |-> reqs[n].seen,
           readOk |-> read2, data |-> readBookings(read2),
           booking |-> newBooking(reqs[n].body)]]
    /\ running' = 0
    /\ UNCHANGED vars

\* lines 271-286: the booking is built and the collection read
PostReads(n, read2) ==
    /\ reqs[n].pc = "checked"
    /\ running \in {0, n}
    /\ reqs' = [reqs EXCEPT ![n] =
          [pc |-> "read", status |-> 0, body |-> reqs[n].body, seen |-> reqs[n].seen,
           readOk |-> read2, data |-> readBookings(read2),
           booking |-> newBooking(reqs[n].body)]]
    /\ running' = n
    /\ UNCHANGED vars

\* lines 287-316: the push, the write, and on success the sends and the 201
PostWrites(n, w) ==
    LET booking == reqs[n].booking
        data == Append(reqs[n].data, booking)
        done(status) == [pc |-> "done", status |-> status, seen |-> reqs[n].seen,
                         readOk |-> reqs[n].readOk, w |-> w, booking |-> booking]
    IN  /\ reqs[n].pc = "read"
        /\ running \in {0, n}
        /\ file' = saveBookingsFile(data, w)
        /\ IF ~ saveBookings(w)
           THEN /\ resp' = [op |-> "POST", status |-> 500, body |->
                              [error |-> "Blad podczas zapisywania rezerwacji"]]
                /\ mail' = mail
                /\ reqs' = [reqs EXCEPT ![n] = done(500)]
           ELSE /\ mail' = <<sendClinicNotification(booking),
                             sendClientConfirmation(booking)>>
                /\ resp' = [op |-> "POST", status |-> 201, body |->
                              [success |-> TRUE,
                               message |-> "Rezerwacja zostala pomyslnie utworzona",
                               booking |-> [id |-> booking.id, date |-> booking.date,
                                            time |-> booking.time,
                                            service |-> booking.service]]]
                /\ reqs' = [reqs EXCEPT ![n] = done(201)]
        /\ running' = 0
        /\ UNCHANGED clock

\* lines 332-339: the collection is read and the booking looked up
DeleteReads(n, readOk) ==
    LET data == readBookings(readOk)
        bookingIndex == FindIndexById(data, reqs[n].id)
    IN  /\ reqs[n].pc = "delArrived"
        /\ running = 0
        /\ IF bookingIndex = 0
           THEN /\ resp' = [op |-> "DELETE", status |-> 404, body |->
                              [error |-> "Rezerwacja nie znaleziona"]]
                /\ reqs' = [reqs EXCEPT ![n] =
                      [pc |-> "done", status |-> 404, id |-> reqs[n].id,
                       seen |-> Waiting(n)]]
                /\ running' = 0
           ELSE /\ resp' = resp
                /\ reqs' = [reqs EXCEPT ![n] =
                      [pc |-> "delRead", status |-> 0, id |-> reqs[n].id,
                       seen |-> Waiting(n), readOk |-> readOk, data |-> data,
                       bookingIndex |-> bookingIndex]]
                /\ running' = n
        /\ UNCHANGED <<file, clock, mail>>

\* lines 341-344: the splice, the write (its result unused) and the 200
DeleteWrites(n, w) ==
    /\ reqs[n].pc = "delRead"
    /\ running \in {0, n}
    /\ file' = saveBookingsFile(Splice1(reqs[n].data, reqs[n].bookingIndex), w)
    /\ resp' = [op |-> "DELETE", status |-> 200, body |->
                  [success |-> TRUE, message |-> "Rezerwacja zostala usunieta"]]
    /\ reqs' = [reqs EXCEPT ![n] =
          [pc |-> "done", status |-> 200, id |-> reqs[n].id, seen |-> reqs[n].seen,
           readOk |-> reqs[n].readOk, w |-> w]]
    /\ running' = 0
    /\ UNCHANGED <<clock, mail>>

NextWrites ==
    \/ \E n \in Reqs, body \in CompleteBodies \cap ArrivalBodies : Arrive(n, body) /\ UNCHANGED <<dbVars, page>>
    \/ \E n \in Reqs, id \in DeleteIds : ArriveDelete(n, id) /\ UNCHANGED <<dbVars, page>>
    \/ \E n \in Reqs, read1 \in BOOLEAN : HandlerChecks(n, read1) /\ UNCHANGED <<dbVars, page>>
    \/ \E n \in Reqs, read2 \in BOOLEAN : PostReads(n, read2) /\ UNCHANGED <<dbVars, page>>
    \/ \E n \in Reqs, w \in WriteOutcomes : PostWrites(n, w) /\ UNCHANGED <<dbVars, page>>
    \/ \E n \in Reqs, readOk \in BOOLEAN : DeleteReads(n, readOk) /\ UNCHANGED <<dbVars, page>>
    \/ \E n \in Reqs, w \in WriteOutcomes : DeleteWrites(n, w) /\ UNCHANGED <<dbVars, page>>
    \/ \E i \in 1..2 : SendMailSettlesBetweenTurns(i, TRUE) /\ UNCHANGED <<dbVars, page>>
    \/ Tick /\ running = 0 /\ UNCHANGED <<dbVars, turnVars, page>>

SpecWrites == Init /\ [][NextWrites]_allVars

(***************************************************************************)
(* The page (script.js).  Every listener runs to completion; an async      *)
(* listener runs up to its await and its continuation is a later step,     *)
(* taken when the response arrives, in whatever order responses arrive.    *)
(* The events of the form (a change of service, input, a date picked, a    *)
(* slot clicked, submit, the close button) reach the page only while the   *)
(* modal is shown; a form is not submitted through a disabled button.      *)
(* The buttons that open the modal stand outside the nav menu; the burger  *)
(* is on screen below the desktop width, the links of the menu when the    *)
(* menu is open or at the desktop width.                                   *)
(* SpecScroll is the page with the events that take and give back the      *)
(* scroll lock; SpecForm is the modal with its form and its requests.      *)
(***************************************************************************)
\* ScrollLock.lock and ScrollLock.unlock, on the counter
Lock(n) == n + 1
Unlock(n) == IF n - 1 > 0 THEN n - 1 ELSE 0

\* the clicks of a user on the rendered slot buttons
ClickTimes == {"09:00", "10:00"}
\* data.availableTimes of an answered request
ServerAnswers == {<<>>, <<"09:00">>}
Services == {"consultation"}

\* fetchAvailableTimes: the list of the response, the default list when the
\* request failed or was answered with an error status
fetchAvailableTimes(ok, times) == IF ok THEN times ELSE allTimeSlots

\* checkFormValidity: btn.disabled = !valid
checkFormValidity(p) ==
    [p EXCEPT !.btnDisabled =
        ~ (p.fields /\ p.selectedService # Null /\ p.selectedDate # Null
                    /\ p.selectedTime # Null)]

Remove(seq, k) == [i \in 1..(Len(seq) - 1) |-> IF i < k THEN seq[i] ELSE seq[i + 1]]

\* closeMenu of initNav: the class active removed, ScrollLock.unlock()
closeMenu(p) == [p EXCEPT !.menuActive = FALSE, !.lockCount = Unlock(@)]

\* the click listener of the document: an open menu is closed by a click
\* outside it
DocumentClick(p) == IF p.menuActive THEN closeMenu(p) ELSE p

\* closeBookingModal: the datepicker destroyed, the class show removed,
\* resetForm(), ScrollLock.unlock()
closeBookingModal(p) ==
    [p EXCEPT !.datepicker = FALSE, !.modalShow = FALSE,
              !.selectedService = Null, !.selectedDate = Null,
              !.selectedTime = Null, !.pickedFor = Null,
              !.fields = FALSE, !.btnDisabled = TRUE,
              !.timeSlots = [state |-> "empty", date |-> Null, times |-> <<>>],
              !.lockCount = Unlock(@)]

\* a click on a .js-open-booking button: openBookingModal, then the click
\* reaches the document
OpenBookingClick ==
    /\ page.lockCount < MaxLock
    /\ page' = DocumentClick([page EXCEPT !.modalShow = TRUE, !.lockCount = Lock(@),
                                          !.initTimer = TRUE])

\* the timeout of openBookingModal: initializeDatepicker
InitializeDatepicker ==
    /\ page.initTimer
    /\ page' = [page EXCEPT !.initTimer = FALSE, !.datepicker = TRUE]

\* a click on the close button or on the backdrop of the modal:
\* closeBookingModal, then the click reaches the document
CloseClick ==
    /\ page.modalShow
    /\ page' = DocumentClick(closeBookingModal(page))

\* the Escape key: the global listener closes a shown modal, then an open menu
\* (the class removed, ScrollLock.unlock()); the listener of initNav, added
\* later, finds the menu closed
Escape ==
    LET p == IF page.modalShow THEN closeBookingModal(page) ELSE page
    IN  page' = IF p.menuActive
                THEN [p EXCEPT !.menuActive = FALSE, !.lockCount = Unlock(@)]
                ELSE p

\* a click on the burger: closeMenu or openMenu
BurgerClick ==
    /\ ~ page.mqMatches
    /\ page.menuActive \/ page.lockCount < MaxLock
    /\ page' = IF page.menuActive
               THEN closeMenu(page)
               ELSE [page EXCEPT !.menuActive = TRUE, !.lockCount = Lock(@)]

\* a click on a link of the menu: closeMenu, whether the menu is open or not
MenuLinkClick ==
    /\ page.menuActive \/ page.mqMatches
    /\ page' = closeMenu(page)

\* a click on the page outside the menu and the burger
OutsideClick ==
    /\ page.menuActive
    /\ page' = DocumentClick(page)

\* handleMQ: closeMenu when the query matches, whether the menu is open or not
handleMQ(p) == IF p.mqMatches THEN closeMenu(p) ELSE p

\* the media query changes
MediaQueryChange ==
    page' = handleMQ([page EXCEPT !.mqMatches = ~ @])

\* a change of the service radio
ServiceChange(service) ==
    /\ page.modalShow
    /\ page' = checkFormValidity([page EXCEPT !.selectedService = service])

\* input or blur on one of the four text fields: checkFormValidity
InputEvent(filled) ==
    /\ page.modalShow
    /\ page' = checkFormValidity([page EXCEPT !.fields = filled])

\* onSelect of the datepicker up to its await: selectedDate, the first request
OnSelect(date) ==
    /\ page.modalShow
    /\ page.datepicker
    /\ Len(page.picks) < MaxPicks
    /\ page' =
          IF date = Missing THEN page
          ELSE [page EXCEPT !.selectedDate = date,
                            !.picks = Append(@, [date |-> date, stage |-> "fetch1"])]

\* the first request of an onSelect settles; its list is dropped.
\* renderTimeSlotsForDate runs up to its await (the loading notice, the
\* second request), then checkFormValidity
OnSelectRenders(k) ==
    /\ k \in DOMAIN page.picks
    /\ page.picks[k].stage = "fetch1"
    /\ page' = checkFormValidity(
                  [page EXCEPT !.picks[k].stage = "fetch2",
                               !.timeSlots = [state |-> "loading",
                                              date |-> page.picks[k].date,
                                              times |-> <<>>]])

\* the second request settles: renderTimeSlotsForDate puts the buttons
RenderTimeSlots(k, ok, times) ==
    /\ k \in DOMAIN page.picks
    /\ page.picks[k].stage = "fetch2"
    /\ LET fetched == fetchAvailableTimes(ok, times)
       IN  page' = [page EXCEPT
                      !.timeSlots = [state |-> IF Len(fetched) = 0 THEN "no-slots"
                                                                  ELSE "slots",
                                     date |-> page.picks[k].date, times |-> fetched],
                      !.picks = Remove(@, k)]

\* a click on a rendered slot button: selectTimeSlot(time)
SelectTimeSlot(time) ==
    /\ page.modalShow
    /\ Includes(page.timeSlots.times, time)
    /\ page' = checkFormValidity([page EXCEPT !.selectedTime = time,
                                              !.pickedFor = page.timeSlots.date])

\* submit of the booking form, up to the await of the POST
Submit ==
    /\ page.modalShow
    /\ ~ page.btnDisabled
    /\ Len(page.posts) < MaxPosts
    /\ page' =
          IF page.selectedService = Null \/ page.selectedDate = Null
                \/ page.selectedTime = Null
          THEN page
          ELSE [page EXCEPT !.btnDisabled = TRUE,
                            !.posts = Append(@, [date |-> page.selectedDate,
                                                 time |-> page.selectedTime])]

\* the POST settles: answered 201, closeBookingModal(); answered with an
\* error status or failed, the button is enabled again
SubmitSettles(k, ok) ==
    /\ k \in DOMAIN page.posts
    /\ LET p == [page EXCEPT !.posts = Remove(@, k)]
       IN  page' = IF ok THEN closeBookingModal(p)
                         ELSE [p EXCEPT !.btnDisabled = FALSE]

NextScroll ==
    \/ OpenBookingClick /\ UNCHANGED <<vars, dbVars, turnVars>>
    \/ InitializeDatepicker /\ UNCHANGED <<vars, dbVars, turnVars>>
    \/ CloseClick /\ UNCHANGED <<vars, dbVars, turnVars>>
    \/ Escape /\ UNCHANGED <<vars, dbVars, turnVars>>
    \/ BurgerClick /\ UNCHANGED <<vars, dbVars, turnVars>>
    \/ MenuLinkClick /\ UNCHANGED <<vars, dbVars, turnVars>>
    \/ OutsideClick /\ UNCHANGED <<vars, dbVars, turnVars>>
    \/ MediaQueryChange /\ UNCHANGED <<vars, dbVars, turnVars>>
    \/ \E service \in Services : ServiceChange(service) /\ UNCHANGED <<vars, dbVars, turnVars>>
    \/ \E filled \in BOOLEAN : InputEvent(filled) /\ UNCHANGED <<vars, dbVars, turnVars>>

SpecScroll == Init /\ [][NextScroll]_allVars

NextForm ==
    \/ OpenBookingClick /\ UNCHANGED <<vars, dbVars, turnVars>>
    \/ InitializeDatepicker /\ UNCHANGED <<vars, dbVars, turnVars>>
    \/ CloseClick /\ UNCHANGED <<vars, dbVars, turnVars>>
    \/ Escape /\ UNCHANGED <<vars, dbVars, turnVars>>
    \/ \E service \in Services : ServiceChange(service) /\ UNCHANGED <<vars, dbVars, turnVars>>
    \/ \E filled \in BOOLEAN : InputEvent(filled) /\ UNCHANGED <<vars, dbVars, turnVars>>
    \/ \E date \in Dates \cup {Missing} : OnSelect(date) /\ UNCHANGED <<vars, dbVars, turnVars>>
    \/ \E k \in 1..MaxPicks : OnSelectRenders(k) /\ UNCHANGED <<vars, dbVars, turnVars>>
    \/ \E k \in 1..MaxPicks, ok \in BOOLEAN, times \in ServerAnswers :
          RenderTimeSlots(k, ok, times) /\ UNCHANGED <<vars, dbVars, turnVars>>
    \/ \E time \in ClickTimes : SelectTimeSlot(time) /\ UNCHANGED <<vars, dbVars, turnVars>>
    \/ Submit /\ UNCHANGED <<vars, dbVars, turnVars>>
    \/ \E k \in 1..MaxPosts, ok \in BOOLEAN :
          SubmitSettles(k, ok) /\ UNCHANGED <<vars, dbVars, turnVars>>

SpecForm == Init /\ [][NextForm]_allVars

(***************************************************************************)
(* Properties                                                              *)
(***************************************************************************)

\* some stored booking has this date and this time
SlotStored(date, time) ==
    \E i \in DOMAIN file : file[i].date = date /\ file[i].time = time

\* C1: the stored collection holds at most one booking for any (date, time) pair,
\* after any sequence of POST and DELETE requests, failed reads and writes included.
C1_AtMostOnePerSlot ==
    \A i, j \in DOMAIN file :
        i # j => ~ (file[i].date = file[j].date /\ file[i].time = file[j].time)

\* C2: a complete POST for a (date, time) that a stored booking has is answered
\* 409, leaves the stored collection as it was and dispatches no notification
\* (stated for the requests that are not answered 500 for a failed write).
C2_TakenSlotAnswered409 ==
    [][\A body \in CompleteBodies :
          (/\ resp'.op = "POST"
           /\ resp'.status # 500
           /\ SlotStored(body.date, body.time)
           /\ PostBookings(body))
              => (resp'.status = 409 /\ file' = file /\ mail' = mail)]_vars

\* C3: once a booking is stored (its POST was answered 201) and for as long as it
\* is stored, every GET /api/available-times for its date omits its time.
C3_BookedTimeOmitted ==
    (resp.op = "AVAIL" /\ resp.status = 200)
        => \A i \in DOMAIN file :
              file[i].date = resp.body.date
                  => ~ Includes(resp.body.availableTimes, file[i].time)

\* C4: availableTimes is the fixed list, in its order, without exactly the times
\* of the stored bookings on the date asked for.
C4_AvailableIsListMinusBooked ==
    (resp.op = "AVAIL" /\ resp.status = 200)
        => resp.body.availableTimes =
              SelectSeq(allTimeSlots, LAMBDA t : ~ SlotStored(resp.body.date, t))

\* C5: for a date on which no booking is stored, GET /api/available-times returns
\* all 11 labels 08:00 .. 18:00 in that order, whatever is booked on other dates.
C5_FreeDateAllSlots ==
    (/\ resp.op = "AVAIL"
     /\ resp.status = 200
     /\ \A i \in DOMAIN file : file[i].date # resp.body.date)
        => (/\ Len(resp.body.availableTimes) = 11
            /\ resp.body.availableTimes =
                  <<"08:00", "09:00", "10:00", "11:00", "12:00", "13:00",
                    "14:00", "15:00", "16:00", "17:00", "18:00">>)

\* a GET for a date without bookings while a listed time is booked on another date
C5_Witness ==
    /\ resp.op = "AVAIL"
    /\ resp.status = 200
    /\ \A i \in DOMAIN file : file[i].date # resp.body.date
    /\ \E i \in DOMAIN file : file[i].time = "09:00"
    /\ Len(resp.body.availableTimes) = 11

\* C6: GET /api/available-times answers 400 exactly when the date parameter is
\* missing or empty; every other request is answered 200 with a list of slot
\* labels, also when the read of the stored collection fails.
C6_BadRequestIffNoDate ==
    [][(resp'.op = "AVAIL" /\ clock' = clock /\ mail' = mail)
          => \A date \in QueryDates, readOk \in BOOLEAN :
                GetAvailableTimes(date, readOk)
                    => /\ resp'.status = 400 <=> date \in {Missing, ""}
                       /\ date \notin {Missing, ""}
                             => /\ resp'.status = 200
                                /\ \A i \in DOMAIN resp'.body.availableTimes :
                                      Includes(allTimeSlots,
                                               resp'.body.availableTimes[i])]_vars

\* a 200 whose read failed: a stored booking's listed time is offered as available
C6_Witness ==
    /\ resp.op = "AVAIL"
    /\ resp.status = 200
    /\ \E i \in DOMAIN file :
          /\ file[i].date = resp.body.date
          /\ Includes(allTimeSlots, file[i].time)
          /\ Includes(resp.body.availableTimes, file[i].time)

\* the bodies in which one of the seven required fields is missing or empty
C7_Lacking ==
    {body \in Bodies :
        \E f \in {"firstName", "lastName", "email", "phone", "service", "date", "time"} :
            body[f] \in {Missing, ""}}

\* C7: a POST in which firstName, lastName, email, phone, service, date or time
\* is missing or empty is answered 400 (also when its slot is taken) and changes
\* neither the stored collection nor the mail; a body that has the seven, with
\* or without notes and price, is never answered 400.
C7_MissingFieldAnswered400 ==
    [][(resp'.op = "POST" /\ clock' = clock)
          => /\ \A body \in C7_Lacking :
                   PostBookings(body)
                       => (resp'.status = 400 /\ file' = file /\ mail' = mail)
             /\ resp'.status = 400
                   => \A body \in Bodies \ C7_Lacking : ~ PostBookings(body)]_vars

\* a 400 while the slot of the incomplete bodies is taken: no 409 came first
C7_Witness ==
    /\ resp.op = "POST"
    /\ resp.status = 400
    /\ SlotStored("2025-03-10", "09:00")

\* C8: sends are started only by a POST whose write succeeded: a POST whose
\* write fails is answered 500 and starts no send, and a step that starts sends
\* (never one answered 400, 409 or 500) is a POST answered 201 that has stored
\* the booking the sends are for.
C8_SendsOnlyAfterSave ==
    [][/\ (resp'.op = "POST" /\ clock' = clock)
             => \A body \in CompleteBodies, read2 \in BOOLEAN,
                   w \in {"failed", "truncated"} :
                   PostSave(body, read2, w)
                       => (resp'.status = 500 /\ mail' = mail)
       /\ Len(Pending(mail')) > Len(Pending(mail))
             => /\ resp'.op = "POST"
                /\ resp'.status = 201
                /\ file' # <<>>
                /\ \A i \in DOMAIN mail' :
                      mail'[i].id = file'[Len(file')].id]_vars

\* a POST whose write failed: answered 500, nothing in flight
C8_Witness ==
    /\ resp.op = "POST"
    /\ resp.status = 500
    /\ Pending(mail) = <<>>

\* C9: whatever the outcome of the two sends, the POST stays answered 201 and its
\* booking stays in the stored collection.
C9_BookingKeptWhateverMail ==
    (resp.op = "POST" /\ resp.status = 201)
        => /\ Len(mail) = 2
           /\ \E i \in DOMAIN file :
                 /\ file[i].id = resp.body.booking.id
                 /\ file[i].date = resp.body.booking.date
                 /\ file[i].time = resp.body.booking.time

\* both sends of the booking just answered 201 have failed
C9_Witness ==
    /\ resp.op = "POST"
    /\ resp.status = 201
    /\ Len(mail) = 2
    /\ mail[1].st = "failed"
    /\ mail[2].st = "failed"
    /\ \E i \in DOMAIN file : file[i].id = resp.body.booking.id

\* C10: once DELETE /api/bookings/:id is answered 200, the listing GET
\* /api/bookings answers next, whether its read succeeds or not, has no booking
\* with that id.
C10_DeletedIdNotListed ==
    [][\A id \in ParamIds :
          (resp'.op = "DELETE" /\ resp'.status = 200 /\ DeleteBooking(id))
              => \A r \in BOOLEAN :
                    \A i \in DOMAIN readBookings(r)' : readBookings(r)'[i].id # id]_vars

\* the stored collection without its element at index k
C11_Without(k) == [i \in 1..(Len(file) - 1) |-> IF i < k THEN file[i] ELSE file[i + 1]]

\* C11: DELETE /api/bookings/:id for an id no stored booking has is answered 404
\* and leaves the stored collection unchanged; for an id a stored booking has it
\* is answered 200 and removes exactly one booking with that id, the others and
\* their order unchanged.
C11_DeleteOutcome ==
    [][(resp'.op = "DELETE" /\ clock' = clock /\ mail' = mail)
          => \A id \in ParamIds :
                DeleteBooking(id)
                    => IF \A i \in DOMAIN file : file[i].id # id
                       THEN resp'.status = 404 /\ file' = file
                       ELSE /\ resp'.status = 200
                            /\ \E k \in DOMAIN file :
                                  file[k].id = id /\ file' = C11_Without(k)]_vars

\* C12: no two bookings of the stored collection have the same id.
C12_IdsUnique ==
    \A i, j \in DOMAIN file : i # j => file[i].id # file[j].id

\* C13: the time of every stored booking is one of the 11 labels 08:00 .. 18:00.
C13_StoredTimesListed ==
    \A i \in DOMAIN file : Includes(allTimeSlots, file[i].time)

\* C14: a request whose write of the collection fails is answered 500: a POST
\* (its save step), and a DELETE (its save step) as well.
C14_FailedWriteAnswered500 ==
    [][/\ (resp'.op = "POST" /\ clock' = clock)
             => \A body \in CompleteBodies, read2 \in BOOLEAN,
                   w \in {"failed", "truncated"} :
                   PostSave(body, read2, w) => resp'.status = 500
       /\ (resp'.op = "DELETE" /\ clock' = clock /\ mail' = mail)
             => \A id \in ParamIds, readOk \in BOOLEAN, w \in {"failed", "truncated"} :
                   LET data == readBookings(readOk)
                       bookingIndex == FindIndexById(data, id)
                   IN  (bookingIndex # 0 /\ DeleteSave(data, bookingIndex, w))
                          => resp'.status = 500]_vars

\* the two sends of a booking, as started and not yet settled
C15_FreshSends(b) ==
    {<<[kind |-> "clinic", to |-> CLINIC_EMAIL, id |-> b.id, st |-> "pending"],
       [kind |-> "client", to |-> b.email, id |-> b.id, st |-> "pending"]>>,
     <<[kind |-> "client", to |-> b.email, id |-> b.id, st |-> "pending"],
       [kind |-> "clinic", to |-> CLINIC_EMAIL, id |-> b.id, st |-> "pending"]>>}

\* C15: the step that persists a booking and answers 201 starts exactly two
\* sends for it, one to the clinic address and one to the booking's email;
\* no other step starts a send or starts a settled one again, and the settling
\* of one send (sent or failed) leaves the other as it was.
C15_TwoSendsOnce ==
    [][/\ (resp'.op = "POST" /\ resp'.status = 201 /\ clock' = clock)
             => \A body \in CompleteBodies :
                   PostBookings(body)
                       => /\ file' # <<>>
                          /\ file'[Len(file')].id = resp'.body.booking.id
                          /\ mail' \in C15_FreshSends(file'[Len(file')])
       /\ \/ /\ resp'.op = "POST" /\ resp'.status = 201
             /\ mail # mail'
             /\ Pending(mail) = <<>>
          \/ /\ Len(mail') = Len(mail)
             /\ \A i \in DOMAIN mail :
                   /\ mail'[i] = [mail[i] EXCEPT !.st = mail'[i].st]
                   /\ mail[i].st # "pending" => mail'[i] = mail[i]
             /\ \A i, j \in DOMAIN mail :
                   (i # j /\ mail'[i] # mail[i]) => mail'[j] = mail[j]]_vars

\* C15 witness: the send to the clinic failed and the send to the booking's
\* email was made all the same and went out, each once.
C15_Witness ==
    /\ Len(mail) = 2
    /\ \E i, j \in 1..2 :
          /\ mail[i].kind = "clinic" /\ mail[i].st = "failed"
          /\ mail[j].kind = "client" /\ mail[j].st = "sent"
          /\ mail[j].to = "anna@example.com"
          /\ \E k \in DOMAIN file : file[k].id = mail[j].id

\* C16: both sends of a successful booking are started only after the 201
\* response of its request has been written: a handler that has started a send
\* has answered 201 already.
C16_SendsAfterResponse ==
    \A n \in Reqs :
       reqs[n].pc \in {"clinicStarted", "clientStarted"} => reqs[n].status = 201

\* C16, amended: both sends of a successful booking are started before the 201
\* response of its request is written, and the response does not wait for
\* them: at the step that writes the 201 the two sends, first the clinic's and
\* then the client's, are in flight and neither has settled.
C16_SendsInFlightAtResponse ==
    [][\A n \in Reqs :
          (reqs[n].status = 0 /\ reqs'[n].status = 201)
             => /\ mail' = <<sendClinicNotification(reqs[n].booking),
                            sendClientConfirmation(reqs[n].booking)>>
                /\ mail' = mail
                /\ Pending(mail') = mail']_allVars

\* C16 witness: a request has been answered 201 and both its sends are still
\* in flight.
C16_Witness ==
    \E n \in Reqs :
       /\ reqs[n].pc = "done" /\ reqs[n].status = 201
       /\ resp.status = 201 /\ resp.body.booking.id = reqs[n].booking.id
       /\ Len(mail) = 2
       /\ mail[1].st = "pending" /\ mail[2].st = "pending"
       /\ mail[1].id = reqs[n].booking.id /\ mail[2].id = reqs[n].booking.id

\* C17: a POST never alters, removes or reorders stored bookings: every booking
\* stored before it is stored after it at the same place, and after a 201 the
\* collection is the previous one with the new booking appended.
C17_PostOnlyAppends ==
    [][(resp'.op = "POST" /\ clock' = clock)
          => \A body \in Bodies :
                PostBookings(body)
                    => /\ \A i \in DOMAIN file :
                             i \in DOMAIN file' /\ file'[i] = file[i]
                       /\ resp'.status = 201
                             => file' = Append(file, newBooking(body))]_vars

\* two requests overlap: the one was waiting when the handler of the other began
C19_Overlap(n, m) ==
    /\ reqs[n].pc \notin {"none", "arrived"}
    /\ reqs[m].pc \notin {"none", "arrived"}
    /\ m \in reqs[n].seen \/ n \in reqs[m].seen

C19_SameSlot(n, m) ==
    /\ reqs[n].body.date = reqs[m].body.date
    /\ reqs[n].body.time = reqs[m].body.time

\* the handler of n has written its booking
C19_Wrote(n) ==
    \/ reqs[n].pc \in {"saved", "clinicStarted", "clientStarted"}
    \/ reqs[n].pc = "done" /\ reqs[n].status = 201

C20_BothInsertsSucceed ==
    [][\A c \in Callers :
          (callers[c].pc = "checked" /\ callers'[c].pc \in {"created", "rejected"})
             => /\ (callers'[c].pc = "rejected" /\ callers'[c].err = "SQLITE_CONSTRAINT")
                      => \E r \in rows : r.id = callers[c].booking.id
                /\ \A d \in Callers \ {c} :
                      (/\ callers[d].pc = "created"
                       /\ \A r \in rows : r.id # callers[c].booking.id
                       /\ RowOf(callers[d].booking) \in rows
                       /\ callers[d].booking.date = callers[c].booking.date
                       /\ callers[d].booking.time = callers[c].booking.time
                       /\ callers[c].available
                       /\ CallCreateBooking(c, "ok"))
                         => /\ callers'[c].pc = "created"
                            /\ RowOf(callers[c].booking) \in rows'
                            /\ RowOf(callers[d].booking) \in rows']_allVars

\* C20 witness: two callers with distinct ids, both checks resolved true for
\* the same slot, both inserts done; the table holds two rows for the slot.
C20_Witness ==
    \E c, d \in Callers :
       /\ c # d
       /\ callers[c].pc = "created" /\ callers[d].pc = "created"
       /\ callers[c].booking.id # callers[d].booking.id
       /\ callers[c].booking.date = callers[d].booking.date
       /\ callers[c].booking.time = callers[d].booking.time
       /\ Cardinality({r \in rows : /\ r.date = callers[c].booking.date
                                   /\ r.time = callers[c].booking.time}) = 2

\* C18: the flat file and the database are interchangeable: whatever sequence
\* of insert, delete, exists and listByDate is applied to both from the empty
\* store, each operation has the same outcome in both, exists gives the same
\* answer and listByDate returns the same bookings.
C18_BackendsAgree ==
    out.file = out.db

\* C27: the read endpoints GET /api/available-times, GET /api/bookings, GET /
\* and GET /health leave the stored collection unchanged, and GET /api/bookings
\* returns exactly the stored bookings in stored order.
C27_ReadsFrameAndList ==
    [][(resp'.op \in {"AVAIL", "LIST", "ROOT", "HEALTH"} /\ resp' # resp)
          => /\ file' = file
             /\ resp'.op = "LIST" => resp'.body.list = file]_vars

\* the change of an answered request is in the stored collection
C21_ChangeStored(n) ==
    IF reqs[n].status = 201
    THEN Includes(file, reqs[n].booking)
    ELSE \A i \in DOMAIN file : file[i].id # reqs[n].id

\* two answered requests that overlapped, both with success, every read and
\* write of theirs having succeeded, neither undoing the other
C21_OverlappedSuccesses(n, m) ==
    /\ n # m
    /\ reqs[n].pc = "done" /\ reqs[m].pc = "done"
    /\ reqs[n].status \in {200, 201} /\ reqs[m].status \in {200, 201}
    /\ m \in reqs[n].seen \/ n \in reqs[m].seen
    /\ reqs[n].readOk /\ reqs[m].readOk
    /\ reqs[n].w = "ok" /\ reqs[m].w = "ok"
    /\ reqs[n].status = 201 \/ reqs[m].status = 201
    /\ (reqs[n].status = 201 /\ reqs[m].status = 201)
          => ~ (/\ reqs[n].booking.date = reqs[m].booking.date
                /\ reqs[n].booking.time = reqs[m].booking.time)
    /\ (reqs[n].status = 201 /\ reqs[m].status = 200)
          => reqs[n].booking.id # reqs[m].id
    /\ (reqs[n].status = 200 /\ reqs[m].status = 201)
          => reqs[m].booking.id # reqs[n].id

C26_MigrationKeepsRows ==
    [][(migration.pc = "running" /\ migration'.i = migration.i + 1)
          => /\ \A r \in rows : r \in rows'
             /\ \A r, q \in rows' : r.id = q.id => r = q
             /\ (\E r \in rows : r.id = migration.data[migration.i].id)
                   => rows' = rows]_allVars

\* the migration has come to a booking whose row was cancelled after an earlier
\* migration, and has skipped it
C26_Witness ==
    /\ migration.pc = "running"
    /\ migration.i > 1
    /\ migration.last = "ignored"
    /\ \E r \in rows : /\ r.id = migration.data[migration.i - 1].id
                       /\ r.status = "cancelled"

\* C22: whenever the booking modal is shown the page scroll is locked
\* (lockCount is at least 1), after any sequence of opening and closing the
\* modal and the menu, Escape presses, nav link clicks and media query changes.
C22_ModalShownLocked == page.modalShow => page.lockCount >= 1

\* C23: while a booking POST of the form is awaiting its response the submit
\* button is disabled, and the form never has two POSTs outstanding, whatever
\* input and blur events reach the fields in the meantime.
C23_DisabledWhileInFlight ==
    /\ page.posts # <<>> => page.btnDisabled
    /\ Len(page.posts) <= 1

\* C24: the time a booking POST carries was clicked in the slot list rendered
\* for the date it carries, and selecting a different date clears the time
\* selected before.
C24_TimePickedForDate ==
    [][/\ Len(page'.posts) > Len(page.posts)
             => page.pickedFor = page'.posts[Len(page'.posts)].date
       /\ (/\ page.selectedDate # Null /\ page'.selectedDate # Null
           /\ page'.selectedDate # page.selectedDate)
             => page'.selectedTime = Null]_allVars

\* C25: once every availability request has been answered, the slot buttons in
\* the form are those returned for the date selected last, in whatever order
\* the responses arrived.
C25_SlotsOfSelectedDate ==
    (/\ page.picks = <<>> /\ page.selectedDate # Null
     /\ page.timeSlots.state \in {"slots", "no-slots"})
        => page.timeSlots.date = page.selectedDate

=============================================================================
